---- MODULE Spec2Model ----
(***************************************************************************)
(* State-machine model of the crowdfunding escrow application of           *)
(* crowdfunding_contract.py (approval_program and clear_program), and, in  *)
(* the last section, of the CrowdfundEscrow application of                 *)
(* contracts/approval.py.                                                  *)
(*                                                                         *)
(* One action per application call.  A call whose assertions fail is       *)
(* aborted by the ledger with no effect at all (the whole transaction      *)
(* group is dropped), so a call is a step of the model exactly when all    *)
(* of its assertions hold and every inner transaction it submits is        *)
(* executed by the ledger.                                                 *)
(***************************************************************************)
EXTENDS Integers, FiniteSets, Sequences, TLC

(* ---------------------------- accounts --------------------------------- *)

Creator == "creator"
Admin == "admin"
Investors == {"inv1", "inv2"}
Accounts == {Creator, Admin} \cup Investors
\* The accounts that open local state in the application.
LocalAccounts == Investors
AppAddr == "app"
ZeroAddr == "zero"

(* ---------------------------- bounds ----------------------------------- *)

MaxRound == 3
MaxDonations == 2
MaxContributions == 3

(* ------------------- parameters drawn at creation ---------------------- *)

Goals == {10000000}
Rates == {100}
Deadlines == {2}
ContribAmounts == {0, 9999, 4000000, 6000000, 9990001}
DonationAmounts == {50000}

(* Assets that exist on the ledger: 1 has no freeze/clawback and is not    *)
(* default-frozen, 2 has a clawback address, 3 is default-frozen with a    *)
(* freeze address.  Asset 0 does not exist.                                *)
Assets == {1, 2, 3}
AssetIds == {0} \cup Assets

AssetParamDefaultFrozen(a) == IF a = 3 THEN 1 ELSE 0
AssetParamFreeze(a) == IF a = 3 THEN Creator ELSE ZeroAddr
AssetParamClawback(a) == IF a = 2 THEN Creator ELSE ZeroAddr

(* ---------------------------- ledger rules ----------------------------- *)

BASE_MIN_BAL == 100000
PER_ASSET_HOLD == 100000

\* MinBalance(app_addr): base reserve plus one unit per asset holding.
MinBalance(holdsAsset) ==
  BASE_MIN_BAL + (IF holdsAsset THEN PER_ASSET_HOLD ELSE 0)

(* ---------------------------- arithmetic ------------------------------- *)

\* The program computes on unsigned words and a product that does not fit
\* the word aborts the call.  The model keeps the rule with a word of
\* WordBits bits (64 in the virtual machine), narrow enough for the
\* products that overflow it to be written as integers.
WordBits == 30
UintMax == 2^WordBits - 1

MulNeverAborts(a, b) == TRUE

\* a * b is computed without aborting.
MulOk(a, b) == a * b <= UintMax

(* ---------------------------- state ------------------------------------ *)

VARIABLES
  goal, rate, deadline,       \* global state written once by on_create
  asa_id, raised, deposit, funded,
  optedIn,                    \* accounts that hold local state of the app
  contrib,                    \* local "contrib" of each account
  now,                        \* Global.round()
  balance,                    \* Balance(app_addr)
  asaOptedIn, asaHolding,     \* AssetHolding.balance(app_addr, asa_id)
  paidIn,                     \* payments accepted by contribute since opt-in
  refunded,                   \* total paid to each account by refund
  tokensClaimed,              \* total tokens sent to each account by claim
  claimCount, refundCount,    \* successful claims / refunds per account
  adminPaid, creatorPaid,     \* total paid by the escrow to admin / creator
  seedAccepted,               \* token amount seeded by the accepted setup
  accepted,                   \* payments accepted by contribute, ever
  reclaimCount,               \* successful reclaims
  deleted,                    \* the application has been deleted
  donations,                  \* third-party payments made so far
  contributions,              \* contribute calls accepted so far
  finalized, requiredPool,    \* CrowdfundEscrow: "finalized", "required_pool"
  contributed, claimed,       \* CrowdfundEscrow: local state of each account
  bootstraps                  \* CrowdfundEscrow: bootstrap calls accepted

vars == <<goal, rate, deadline, asa_id, raised, deposit, funded, optedIn,
          contrib, now, balance, asaOptedIn, asaHolding, paidIn,
          refunded, tokensClaimed, claimCount, refundCount, adminPaid,
          creatorPaid, seedAccepted, accepted, reclaimCount, deleted,
          donations, contributions, finalized, requiredPool, contributed,
          claimed, bootstraps>>

\* State of the second application, CrowdfundEscrow, which the calls of the
\* first one never touch.
crowdfundEscrow == <<finalized, requiredPool, contributed, claimed,
                     bootstraps>>

campaign == <<goal, rate, deadline>>
globals == <<asa_id, raised, deposit, funded, deleted>>
locals == <<optedIn, contrib>>
escrow == <<balance, asaOptedIn, asaHolding>>
history == <<paidIn, refunded, tokensClaimed, claimCount, refundCount,
             adminPaid, creatorPaid, seedAccepted, accepted, reclaimCount>>
environment == <<donations, contributions>>

(* ---------------------------- creation --------------------------------- *)

\* on_create: goal > 0, rate > 0, deadline > Global.round(); the counters
\* start at zero.
on_create(g, r, d, rnd) ==
  /\ g > 0
  /\ r > 0
  /\ d > rnd
  /\ goal = g
  /\ rate = r
  /\ deadline = d
  /\ raised = 0
  /\ asa_id = 0
  /\ deposit = 0
  /\ funded = 0

Init ==
  /\ now = 1
  /\ \E g \in Goals, r \in Rates, d \in Deadlines : on_create(g, r, d, now)
  /\ optedIn = {}
  /\ contrib = [a \in Accounts |-> 0]
  /\ balance = 0
  /\ asaOptedIn = FALSE
  /\ asaHolding = 0
  /\ paidIn = [a \in Accounts |-> 0]
  /\ refunded = [a \in Accounts |-> 0]
  /\ tokensClaimed = [a \in Accounts |-> 0]
  /\ claimCount = [a \in Accounts |-> 0]
  /\ refundCount = [a \in Accounts |-> 0]
  /\ adminPaid = 0
  /\ creatorPaid = 0
  /\ seedAccepted = 0
  /\ accepted = [a \in Accounts |-> 0]
  /\ reclaimCount = 0
  /\ deleted = FALSE
  /\ donations = 0
  /\ contributions = 0
  /\ finalized = 0
  /\ requiredPool = 0
  /\ contributed = [a \in Accounts |-> 0]
  /\ claimed = [a \in Accounts |-> 0]
  /\ bootstraps = 0

(* ---------------------------- common symbols --------------------------- *)

is_creator_or_admin(sender) == sender \in {Creator, Admin}

is_creator(sender) == sender = Creator
through_round_after_deadline == now <= deadline + 1

deadline_not_checked == TRUE

before_deadline == now <= deadline

from_deadline_round == now >= deadline

after_deadline == now > deadline

\* assert_sender_opted_in: the sender has local state in the application.
assert_sender_opted_in(sender) == sender \in optedIn

(* ---------------------------- setup ------------------------------------ *)

expected_deposit(g) == (g * 2) \div 100

\* WideRatio([goal, rate], [1_000_000])
required_pool(g, r) == (g * r) \div 1000000

\* The transaction group of a setup call as the program inspects it.
SetupBundle(sender, asset, payAmt, seedAmt) ==
  [argsLen |-> 2, arg1 |-> asset, asset0 |-> asset, groupSize |-> 3, groupIndex |-> 1,
   payType |-> "pay", paySender |-> sender, payReceiver |-> AppAddr,
   payAmount |-> payAmt, payRekey |-> ZeroAddr, payClose |-> ZeroAddr,
   seedType |-> "axfer", seedSender |-> sender, seedReceiver |-> AppAddr,
   seedAsset |-> asset, seedAmount |-> seedAmt, seedClose |-> ZeroAddr,
   seedRekey |-> ZeroAddr]

\* Bundles that differ from a well-formed one in a single field.
SetupMalformed(b) ==
  {[b EXCEPT !.argsLen = 1],
   [b EXCEPT !.asset0 = 1 + (b.asset0 % 3)],
   [b EXCEPT !.groupSize = 2],
   [b EXCEPT !.groupIndex = 0],
   [b EXCEPT !.payType = "axfer"],
   [b EXCEPT !.paySender = Admin],
   [b EXCEPT !.payReceiver = Creator],
   [b EXCEPT !.payRekey = Creator],
   [b EXCEPT !.payClose = Creator],
   [b EXCEPT !.seedType = "pay"],
   [b EXCEPT !.seedSender = Admin],
   [b EXCEPT !.seedReceiver = Creator],
   [b EXCEPT !.seedAsset = 1 + (b.seedAsset % 3)],
   [b EXCEPT !.seedClose = Creator],
   [b EXCEPT !.seedRekey = Creator]}

\* The bundles a sender submits: the creator tries every asset, deposit and
\* seed amount and every malformed variant; other senders submit the
\* well-formed bundle.
SetupBundles(sender) ==
  LET dep == expected_deposit(goal)
      pool == required_pool(goal, rate)
      good == SetupBundle(sender, 1, dep, pool)
  IN IF sender = Creator
     THEN {SetupBundle(sender, a, p, s) :
             a \in AssetIds, p \in {dep, dep + 1},
             s \in {pool - 1, pool, pool + 1}}
          \cup SetupMalformed(good)
     ELSE {good}

\* One-time, pre-funding lock.
SetupLatchOpenNoAsa(asa, dep, rsd, fnd) == dep = 0 /\ rsd = 0 /\ fnd = 0

SetupLatchOpen(asa, dep, rsd, fnd) ==
  asa = 0 /\ dep = 0 /\ rsd = 0 /\ fnd = 0

SetupDepositGuardsAtLeast(sender, b) ==
  /\ b.payType = "pay"
  /\ b.paySender = sender
  /\ b.payReceiver = AppAddr
  /\ b.payAmount >= expected_deposit(goal)
  /\ b.payRekey = ZeroAddr
  /\ b.payClose = ZeroAddr

SetupDepositGuards(sender, b) ==
  /\ b.payType = "pay"
  /\ b.paySender = sender
  /\ b.payReceiver = AppAddr
  /\ MulOk(goal, 2)
  /\ b.payAmount = expected_deposit(goal)
  /\ b.payRekey = ZeroAddr
  /\ b.payClose = ZeroAddr

SetupAsaPolicyNoClawbackCheck(setup_asa) ==
  /\ setup_asa \in Assets
  /\ AssetParamDefaultFrozen(setup_asa) = 0
  /\ AssetParamFreeze(setup_asa) = ZeroAddr

SetupAsaPolicy(setup_asa) ==
  /\ setup_asa \in Assets
  /\ AssetParamDefaultFrozen(setup_asa) = 0
  /\ AssetParamFreeze(setup_asa) = ZeroAddr
  /\ AssetParamClawback(setup_asa) = ZeroAddr

SetupSeedGuards(sender, setup_asa, b) ==
  /\ b.seedType = "axfer"
  /\ b.seedSender = sender
  /\ b.seedReceiver = AppAddr
  /\ b.seedAsset = setup_asa
  /\ b.seedClose = ZeroAddr
  /\ b.seedRekey = ZeroAddr
  /\ b.seedAmount >= required_pool(goal, rate)

\* The deposit payment precedes the call and the inner opt-in raises the
\* reserve of the escrow account: both must leave it at or above the reserve.
SetupLedgerOk(b) == balance + b.payAmount >= MinBalance(TRUE)

SetupOk(sender, setup_asa, b) ==
  /\ is_creator(sender)
  /\ b.argsLen = 2
  /\ SetupLatchOpen(asa_id, deposit, raised, funded)
  /\ b.asset0 = setup_asa
  /\ b.groupSize = 3
  /\ b.groupIndex = 1
  /\ SetupDepositGuards(sender, b)
  /\ SetupAsaPolicy(setup_asa)
  /\ SetupLedgerOk(b)
  /\ SetupSeedGuards(sender, setup_asa, b)

setup(sender, b) ==
  LET setup_asa == b.arg1 IN
  /\ SetupOk(sender, setup_asa, b)
  /\ deposit' = b.payAmount
  /\ asa_id' = setup_asa
  /\ balance' = balance + b.payAmount
  /\ asaOptedIn' = TRUE
  /\ asaHolding' = b.seedAmount
  /\ seedAccepted' = b.seedAmount
  /\ UNCHANGED <<crowdfundEscrow, campaign, raised, funded, deleted, locals, now, paidIn,
                 refunded, tokensClaimed, claimCount, refundCount, adminPaid,
                 creatorPaid, accepted, reclaimCount, environment>>

(* ---------------------------- opt-in ----------------------------------- *)

\* The ledger refuses an opt-in of an account that already has local state.
on_optin(sender) ==
  /\ sender \notin optedIn
  /\ sender \in LocalAccounts
  /\ optedIn' = optedIn \cup {sender}
  /\ contrib' = [contrib EXCEPT ![sender] = 0]
  /\ paidIn' = [paidIn EXCEPT ![sender] = 0]
  /\ UNCHANGED <<crowdfundEscrow, campaign, globals, now, escrow, refunded, tokensClaimed,
                 claimCount, refundCount, adminPaid, creatorPaid,
                 seedAccepted, accepted, reclaimCount, environment>>

(* ---------------------------- contribute ------------------------------- *)

ContributeBundle(sender, amt) ==
  [groupSize |-> 2, groupIndex |-> 0, payType |-> "pay",
   paySender |-> sender, payReceiver |-> AppAddr, payAmount |-> amt,
   payRekey |-> ZeroAddr, payClose |-> ZeroAddr]

ContributeMalformed(b) ==
  {[b EXCEPT !.groupSize = 3],
   [b EXCEPT !.groupIndex = 1],
   [b EXCEPT !.payType = "axfer"],
   [b EXCEPT !.paySender = IF b.paySender = Creator THEN Admin ELSE Creator],
   [b EXCEPT !.payReceiver = Creator],
   [b EXCEPT !.payRekey = Creator],
   [b EXCEPT !.payClose = Creator]}

ContributeBundles(sender) ==
  {ContributeBundle(sender, amt) : amt \in ContribAmounts}
  \cup ContributeMalformed(ContributeBundle(sender, 4000000))

\* Prevent oversubscription.
NoOversubscriptionBeforeAdd(rsd, amt, g) == rsd <= g

NoOversubscriptionOfAmount(rsd, amt, g) == amt <= g

NoOversubscription(rsd, amt, g) == rsd + amt <= g

\* The latch written after the totals are updated.
FundedLatchNever(rsd, g, fnd) == fnd

FundedLatchWithinDust(rsd, g, fnd) == IF rsd >= g - 9999 THEN 1 ELSE fnd

FundedLatch(rsd, g, fnd) == IF rsd = g THEN 1 ELSE fnd

\* Setup must have happened.
SetupDoneAlways(asa) == TRUE

SetupDone(asa) == asa # 0

ContributeOk(investor, b) ==
  /\ assert_sender_opted_in(investor)
  /\ funded = 0
  /\ SetupDone(asa_id)
  /\ before_deadline
  /\ b.groupSize = 2
  /\ b.groupIndex = 0
  /\ b.payType = "pay"
  /\ b.paySender = investor
  /\ b.payReceiver = AppAddr
  /\ b.payAmount > 0
  /\ b.payRekey = ZeroAddr
  /\ b.payClose = ZeroAddr
  /\ NoOversubscription(raised, b.payAmount, goal)

contribute(investor, b) ==
  /\ ContributeOk(investor, b)
  /\ contributions < MaxContributions
  /\ contributions' = contributions + 1
  /\ contrib' = [contrib EXCEPT ![investor] = @ + b.payAmount]
  /\ raised' = raised + b.payAmount
  /\ funded' = FundedLatch(raised', goal, funded)
  /\ balance' = balance + b.payAmount
  /\ paidIn' = [paidIn EXCEPT ![investor] = @ + b.payAmount]
  /\ accepted' = [accepted EXCEPT ![investor] = @ + b.payAmount]
  /\ UNCHANGED <<crowdfundEscrow, campaign, asa_id, deposit, deleted, optedIn, now,
                 asaOptedIn, asaHolding, refunded, tokensClaimed, claimCount,
                 refundCount, adminPaid, creatorPaid, seedAccepted,
                 reclaimCount, donations>>

(* ---------------------------- claim ------------------------------------ *)

\* WideRatio([contrib_amt, rate], [1_000_000])
tokens_due_rounded_up(c, r) == ((c * r) + 999999) \div 1000000

tokens_due_ignoring_rate(c, r) == c \div 1000000

tokens_due(c, r) == (c * r) \div 1000000

\* The inner asset transfer is executed by the ledger only from a holding
\* that exists and covers the amount.
ClaimTransferOk(due) == due > 0 => (asaOptedIn /\ asaHolding >= due)

ClaimOkPositiveReward(sender, assets) ==
  /\ assert_sender_opted_in(sender)
  /\ funded = 1
  /\ Len(assets) >= 1
  /\ assets[1] = asa_id
  /\ contrib[sender] > 0
  /\ tokens_due(contrib[sender], rate) > 0
  /\ ClaimTransferOk(tokens_due(contrib[sender], rate))

ClaimOk(sender, assets) ==
  /\ assert_sender_opted_in(sender)
  /\ funded = 1
  /\ Len(assets) >= 1
  /\ assets[1] = asa_id
  /\ contrib[sender] > 0
  /\ ClaimTransferOk(tokens_due(contrib[sender], rate))

\* Zero local contrib; global raised is not decremented.
ContribKeptAfterClaim(c) == c

ContribAfterClaim(c) == 0

RaisedLessClaimed(rsd, c) == rsd - c

\* raised is kept as the total: claim does not write it.
RaisedAfterClaim(rsd, c) == rsd

claim(sender, assets) ==
  LET due == tokens_due(contrib[sender], rate) IN
  /\ ClaimOk(sender, assets)
  /\ asaHolding' = asaHolding - due
  /\ contrib' = [contrib EXCEPT ![sender] = ContribAfterClaim(@)]
  /\ raised' = RaisedAfterClaim(raised, contrib[sender])
  /\ tokensClaimed' = [tokensClaimed EXCEPT ![sender] = @ + due]
  /\ claimCount' = [claimCount EXCEPT ![sender] = @ + 1]
  /\ UNCHANGED <<crowdfundEscrow, campaign, asa_id, deposit, funded, deleted, optedIn, now, balance, asaOptedIn,
                 paidIn, refunded, refundCount, adminPaid, creatorPaid,
                 seedAccepted, accepted, reclaimCount, environment>>

(* ---------------------------- withdraw --------------------------------- *)

\* Balance(app_addr) - MinBalance(app_addr)
UnlockedWholeBalance(bal, minBal) == bal

Unlocked(bal, minBal) == bal - minBal

AdminFeeOutstanding(rsd, unl) ==
  LET fee == (rsd * 2) \div 100
      due == IF fee > adminPaid THEN fee - adminPaid ELSE 0
  IN IF due <= unl THEN due ELSE unl

\* Platform fee = 2% of total raised, capped to what is available.
AdminFee(rsd, unl) ==
  LET fee == (rsd * 2) \div 100 IN IF fee <= unl THEN fee ELSE unl

ToCreatorWhole(unl, fee) == unl

ToCreator(unl, fee) == unl - fee

WithdrawOkUnfunded(sender) ==
  /\ is_creator(sender)
  /\ balance >= MinBalance(asaOptedIn)

\* The subtraction of unsigned integers aborts below zero.
WithdrawOk(sender) ==
  /\ is_creator(sender)
  /\ funded = 1
  /\ balance >= MinBalance(asaOptedIn)
  /\ MulOk(raised, 2)

withdraw(sender) ==
  LET unl == Unlocked(balance, MinBalance(asaOptedIn))
      fee == AdminFee(raised, unl)
      crt == ToCreator(unl, fee)
  IN /\ WithdrawOk(sender)
     /\ balance' = balance - fee - crt
     /\ adminPaid' = adminPaid + fee
     /\ creatorPaid' = creatorPaid + crt
     /\ UNCHANGED <<crowdfundEscrow, campaign, globals, locals, now, asaOptedIn, asaHolding,
                    paidIn, refunded, tokensClaimed, claimCount, refundCount,
                    seedAccepted, accepted, reclaimCount, environment>>

(* ---------------------------- refund ----------------------------------- *)

\* The inner payment is executed by the ledger only if it leaves the escrow
\* account at or above its reserve.
RefundPaymentOk(amt) == balance - amt >= MinBalance(asaOptedIn)

RefundOk(sender) ==
  /\ assert_sender_opted_in(sender)
  /\ after_deadline
  /\ funded = 0
  /\ contrib[sender] > 0
  /\ RefundPaymentOk(contrib[sender])
  /\ raised >= contrib[sender]

RaisedResetAfterRefund(rsd, c) == 0

RaisedAfterRefund(rsd, c) == rsd - c

refund(sender) ==
  LET c == contrib[sender] IN
  /\ RefundOk(sender)
  /\ balance' = balance - c
  /\ contrib' = [contrib EXCEPT ![sender] = 0]
  /\ raised' = RaisedAfterRefund(raised, c)
  /\ refunded' = [refunded EXCEPT ![sender] = @ + c]
  /\ refundCount' = [refundCount EXCEPT ![sender] = @ + 1]
  /\ UNCHANGED <<crowdfundEscrow, campaign, asa_id, deposit, funded, deleted, optedIn, now,
                 asaOptedIn, asaHolding, paidIn, tokensClaimed, claimCount,
                 adminPaid, creatorPaid, seedAccepted, accepted, reclaimCount,
                 environment>>

(* ------------------- settlement as functions of the state -------------- *)

\* The part of the state that claim, withdraw and refund read and write.
Settlement ==
  [balance |-> balance, asaOptedIn |-> asaOptedIn, asaHolding |-> asaHolding,
   raised |-> raised, contrib |-> contrib,
   refunded |-> refunded, refundCount |-> refundCount,
   tokensClaimed |-> tokensClaimed, claimCount |-> claimCount,
   adminPaid |-> adminPaid, creatorPaid |-> creatorPaid]

\* What an accepted claim of p writes.
ClaimEffect(st, p) ==
  LET due == tokens_due(st.contrib[p], rate) IN
  [st EXCEPT !.asaHolding = @ - due,
             !.contrib[p] = ContribAfterClaim(@),
             !.raised = RaisedAfterClaim(@, st.contrib[p]),
             !.tokensClaimed[p] = @ + due,
             !.claimCount[p] = @ + 1]

\* What an accepted withdraw writes.
WithdrawEffect(st) ==
  LET unl == Unlocked(st.balance, MinBalance(st.asaOptedIn))
      fee == AdminFee(st.raised, unl)
      crt == ToCreator(unl, fee)
  IN [st EXCEPT !.balance = @ - fee - crt,
                !.adminPaid = @ + fee,
                !.creatorPaid = @ + crt]

\* What an accepted refund of p writes.
RefundEffect(st, p) ==
  LET c == st.contrib[p] IN
  [st EXCEPT !.balance = @ - c,
             !.contrib[p] = 0,
             !.raised = RaisedAfterRefund(@, c),
             !.refunded[p] = @ + c,
             !.refundCount[p] = @ + 1]

(* ---------------------------- reclaim ---------------------------------- *)

Half(dep) == dep \div 2

PayAdminWhole(unl, half) == unl

PayAdmin(unl, half) == IF unl < half THEN unl ELSE half

PayCreator(unl, payAdmin, half) ==
  IF unl - payAdmin < half THEN unl - payAdmin ELSE half

\* One-time latch: deposit must still be present.
ReclaimLatchOpen(dep) == TRUE

ReclaimLatch(dep) == dep > 0

\* Ensure refunds are complete.
RefundsCompleteAlways(rsd) == TRUE

RefundsComplete(rsd) == rsd = 0

ReclaimOk(sender) ==
  /\ after_deadline
  /\ funded = 0
  /\ is_creator(sender)
  /\ RefundsComplete(raised)
  /\ ReclaimLatch(deposit)
  /\ balance >= MinBalance(asaOptedIn)

reclaim(sender) ==
  LET half == Half(deposit)
      unl == Unlocked(balance, MinBalance(asaOptedIn))
      pa == PayAdmin(unl, half)
      pc == PayCreator(unl, pa, half)
  IN /\ ReclaimOk(sender)
     /\ balance' = balance - pa - pc
     /\ deposit' = 0
     /\ adminPaid' = adminPaid + pa
     /\ creatorPaid' = creatorPaid + pc
     /\ reclaimCount' = reclaimCount + 1
     /\ UNCHANGED <<crowdfundEscrow, campaign, asa_id, raised, funded, deleted, locals, now,
                    asaOptedIn, asaHolding, paidIn, refunded, tokensClaimed,
                    claimCount, refundCount, seedAccepted, accepted,
                    environment>>

(* ---------------------------- sweeps ----------------------------------- *)

SweepFailedOkUnrefunded(sender) ==
  /\ after_deadline
  /\ funded = 0
  /\ is_creator(sender)
  /\ asa_id # 0
  /\ asaOptedIn

\* An asset close-out is executed by the ledger only from an existing holding.
SweepFailedOk(sender) ==
  /\ after_deadline
  /\ funded = 0
  /\ is_creator(sender)
  /\ raised = 0
  /\ asa_id # 0
  /\ asaOptedIn

sweep_asa_failed(sender) ==
  /\ SweepFailedOk(sender)
  /\ asaHolding' = 0
  /\ asaOptedIn' = FALSE
  /\ UNCHANGED <<crowdfundEscrow, campaign, globals, locals, now, balance, history,
                 environment>>

SweepSuccessOk(sender) ==
  /\ funded = 1
  /\ is_creator(sender)
  /\ after_deadline
  /\ asa_id # 0
  /\ asaOptedIn

sweep_asa_success(sender) ==
  /\ SweepSuccessOk(sender)
  /\ asaHolding' = 0
  /\ asaOptedIn' = FALSE
  /\ UNCHANGED <<crowdfundEscrow, campaign, globals, locals, now, balance, history,
                 environment>>

(* ---------------------------- close_vault ------------------------------ *)

\* Success branch: the holding must exist and be empty; it is then closed.
CloseSuccessOk == asa_id # 0 => (asaOptedIn /\ asaHolding = 0)

CloseFailureOkUnreclaimed ==
  /\ after_deadline
  /\ raised = 0

\* Failure branch.
CloseFailureOk ==
  /\ after_deadline
  /\ raised = 0
  /\ deposit = 0

\* Whether the escrow still holds the asset after the branch has run: the
\* success branch always closes the holding, the failure branch only a
\* holding with a positive balance.
HoldingAfterClose ==
  IF funded = 1
  THEN asaOptedIn /\ asa_id = 0
  ELSE asaOptedIn /\ ~(asa_id # 0 /\ asaHolding > 0)

\* The ledger closes an account only when it holds no asset.
CloseVaultOk(sender) ==
  /\ is_creator(sender)
  /\ IF funded = 1 THEN CloseSuccessOk ELSE CloseFailureOk
  /\ ~HoldingAfterClose

\* close_remainder_to: the whole balance leaves the account.
CloseUnlockedOnly(bal, minBal) == IF bal >= minBal THEN bal - minBal ELSE 0

CloseRemainder(bal, minBal) == bal

close_vault(sender) ==
  LET out == CloseRemainder(balance, MinBalance(FALSE)) IN
  /\ CloseVaultOk(sender)
  /\ asaOptedIn' = FALSE
  /\ asaHolding' = 0
  /\ balance' = balance - out
  /\ creatorPaid' = creatorPaid + out
  /\ UNCHANGED <<crowdfundEscrow, campaign, globals, locals, now, paidIn, refunded,
                 tokensClaimed, claimCount, refundCount, adminPaid,
                 seedAccepted, accepted, reclaimCount, environment>>

(* ---------------------------- lifecycle -------------------------------- *)

\* on_update: Reject().
UpdateOk(sender) == FALSE

DeleteOkEmptyBalanceOnly(sender) == balance = 0

\* Deletion is allowed when the account is empty and nothing is pending.
DeleteOk(sender) ==
  /\ balance = 0
  /\ asa_id # 0 => (asaOptedIn /\ asaHolding = 0)
  /\ raised = 0
  /\ deposit = 0

on_delete(sender) ==
  /\ DeleteOk(sender)
  /\ deleted' = TRUE
  /\ UNCHANGED <<crowdfundEscrow, campaign, asa_id, raised, deposit, funded, locals, now,
                 escrow, history, environment>>

\* Close-out is refused while the caller has a nonzero contribution.
CloseOutOk(sender) ==
  /\ sender \in optedIn
  /\ contrib[sender] = 0

on_closeout(sender) ==
  /\ CloseOutOk(sender)
  /\ optedIn' = optedIn \ {sender}
  /\ UNCHANGED <<crowdfundEscrow, campaign, globals, contrib, now, escrow, history,
                 environment>>

\* clear_program: approves only a caller whose contribution is zero.
ClearProgramApproves(sender) == contrib[sender] = 0

\* A ClearState transaction removes the caller's local state whether or not
\* the clear program approves.
clear_state(sender) ==
  /\ sender \in optedIn
  /\ optedIn' = optedIn \ {sender}
  /\ contrib' = [contrib EXCEPT ![sender] = 0]
  /\ UNCHANGED <<crowdfundEscrow, campaign, globals, now, escrow, history, environment>>

(* ---------------------------- environment ------------------------------ *)

\* The ledger advances to the next round.
Tick ==
  /\ now < MaxRound
  /\ now' = now + 1
  /\ UNCHANGED <<crowdfundEscrow, campaign, globals, locals, escrow, history, environment>>

\* Anyone may pay into the escrow account; the ledger accepts the payment
\* if it leaves the account at or above its reserve.
Donate(amt) ==
  /\ donations < MaxDonations
  /\ balance + amt >= MinBalance(asaOptedIn)
  /\ balance' = balance + amt
  /\ donations' = donations + 1
  /\ UNCHANGED <<crowdfundEscrow, campaign, globals, locals, now, asaOptedIn, asaHolding,
                 history, contributions>>

(* ---------------------------- specification ---------------------------- *)

ClaimAssets == {<<>>, <<asa_id>>, <<asa_id + 1>>}

Next ==
  \/ ~deleted /\ \E sender \in Accounts : \E b \in SetupBundles(sender) :
                    setup(sender, b)
  \/ ~deleted /\ \E sender \in Accounts :
                    \E b \in ContributeBundles(sender) : contribute(sender, b)
  \/ ~deleted /\ \E sender \in Accounts, assets \in ClaimAssets :
                    claim(sender, assets)
  \/ ~deleted /\ \E sender \in Accounts : withdraw(sender)
  \/ ~deleted /\ \E sender \in Accounts : refund(sender)
  \/ ~deleted /\ \E sender \in Accounts : reclaim(sender)
  \/ ~deleted /\ \E sender \in Accounts : sweep_asa_failed(sender)
  \/ ~deleted /\ \E sender \in Accounts : sweep_asa_success(sender)
  \/ ~deleted /\ \E sender \in Accounts : close_vault(sender)
  \/ ~deleted /\ \E sender \in Accounts : on_delete(sender)
  \/ ~deleted /\ \E sender \in Accounts : on_closeout(sender)
  \/ ~deleted /\ \E sender \in Accounts : on_optin(sender)
  \/ ~deleted /\ \E sender \in Accounts : clear_state(sender)
  \/ Tick
  \/ \E amt \in DonationAmounts : Donate(amt)

Spec == Init /\ [][Next]_vars

(* ======================================================================= *)
(*                              properties                                 *)
(* ======================================================================= *)

RECURSIVE Sum(_, _)
Sum(f, S) ==
  IF S = {} THEN 0
  ELSE LET x == CHOOSE y \in S : TRUE IN f[x] + Sum(f, S \ {x})

\* Tokens owed to the participants who have not claimed yet.
PendingTokens ==
  Sum([p \in Accounts |-> IF p \in optedIn
                          THEN (contrib[p] * rate) \div 1000000 ELSE 0],
      Accounts)

\* C1: in every reachable state 0 <= raised <= goal, whatever sequence of
\* calls the callers make.
C1_RaisedWithinGoal == 0 <= raised /\ raised <= goal

\* A contribution has been accepted and a further one would oversubscribe.
C1_Witness ==
  /\ raised > 0
  /\ raised < goal
  /\ \E amt \in ContribAmounts : amt <= goal /\ raised + amt > goal

\* C2: funded never goes back from 1 to 0, it goes from 0 to 1 only in a
\* contribute step that brings raised to goal, and every step that brings
\* raised to goal sets it.
C2_FundedLatch ==
  [][/\ funded = 1 => funded' = 1
     /\ (funded = 0 /\ funded' = 1) =>
          /\ \E sender \in Accounts : \E b \in ContributeBundles(sender) :
               contribute(sender, b)
          /\ raised < goal
          /\ raised' = goal
     /\ (raised # goal /\ raised' = goal) => funded' = 1]_vars

\* The campaign is funded and has gone on past the deadline with claims.
C2_Witness ==
  /\ funded = 1
  /\ after_deadline
  /\ \E p \in Accounts : claimCount[p] = 1

\* C3: no participant ever has both a successful claim and a successful
\* refund, nor two of either; once a participant has claimed or been
\* refunded, any further claim or refund of theirs is rejected.
C3_ExactlyOnce ==
  \A p \in Accounts :
    /\ claimCount[p] + refundCount[p] <= 1
    /\ claimCount[p] + refundCount[p] = 1 =>
         /\ \A assets \in ClaimAssets : ~ClaimOk(p, assets)
         /\ ~RefundOk(p)

\* One participant has claimed and another one could still claim.
C3_Witness ==
  \E p, q \in Accounts :
    /\ claimCount[p] = 1
    /\ p \in optedIn
    /\ ClaimOk(q, <<asa_id>>)

\* C4: a claim by p transfers exactly floor(contrib[p]*rate/10^6) tokens, the
\* tokens transferred by all claims never exceed floor(goal*rate/10^6), and
\* that is at most the seed accepted by setup.
C4_NoOverIssuance ==
  [][/\ \A p \in Accounts : \A assets \in ClaimAssets :
          claim(p, assets) =>
            /\ tokensClaimed'[p] - tokensClaimed[p]
                 = (contrib[p] * rate) \div 1000000
            /\ asaHolding - asaHolding' = (contrib[p] * rate) \div 1000000
     /\ Sum(tokensClaimed', Accounts) <= (goal * rate) \div 1000000
     /\ asa_id' # 0 => (goal * rate) \div 1000000 <= seedAccepted']_vars

\* Every contribution has been claimed and the claims leave dust behind.
C4_Witness ==
  /\ funded = 1
  /\ \A p \in optedIn : contrib[p] = 0
  /\ Sum(tokensClaimed, Accounts) = 999
  /\ Cardinality({p \in Accounts : claimCount[p] = 1}) = 2

\* C5: on a funded campaign the escrow's token holding always covers the
\* tokens owed to the participants who have not claimed yet.
C5_PendingClaimsPayable ==
  funded = 1 =>
    /\ PendingTokens > 0 => asaOptedIn
    /\ asaHolding >= PendingTokens

\* C6: a withdraw or reclaim pays the admin and the creator together at most
\* unlocked = balance - minimum reserve, and leaves the balance at or above
\* the reserve.
C6_PayoutsWithinUnlocked ==
  [][\A s \in Accounts :
       (withdraw(s) \/ reclaim(s)) =>
         /\ (adminPaid' - adminPaid) + (creatorPaid' - creatorPaid)
              <= balance - MinBalance(asaOptedIn)
         /\ balance' >= MinBalance(asaOptedIn')]_vars

\* A withdraw has paid the fee and the rest, down to the reserve.
C6_Witness ==
  /\ funded = 1
  /\ adminPaid = 200000
  /\ creatorPaid > 0
  /\ balance = MinBalance(asaOptedIn)

\* C7 (as stated): close_vault never takes the balance of the escrow account
\* below the minimum reserve.
C7_CloseKeepsReserve ==
  [][\A s \in Accounts :
       close_vault(s) =>
         (balance' >= MinBalance(asaOptedIn') \/ balance' = balance)]_vars

\* C7 (amended): close_vault closes the account: the whole balance, reserve
\* included, goes to the creator, and no balance or holding is left.
C7_CloseEmptiesAccount ==
  [][\A s \in Accounts :
       close_vault(s) =>
         /\ balance' = 0
         /\ creatorPaid' = creatorPaid + balance
         /\ ~asaOptedIn']_vars

\* A funded campaign whose escrow account has been closed.
C7_Witness ==
  /\ funded = 1
  /\ balance = 0
  /\ creatorPaid >= goal

\* C8: whenever a withdraw or close_vault on a funded campaign pays the
\* creator, the admin has by then received min(floor(raised*2/100), unlocked).
C8_FeeBeforeCreator ==
  [][\A s \in Accounts :
       ((withdraw(s) \/ close_vault(s)) /\ funded = 1
          /\ creatorPaid' > creatorPaid) =>
         LET fee == (raised * 2) \div 100
             unl == balance - MinBalance(asaOptedIn)
         IN adminPaid' >= IF fee <= unl THEN fee ELSE unl]_vars

C10_SetupOnce ==
  /\ [](asa_id # 0 =>
         \A sender \in Accounts : \A b \in SetupBundles(sender) :
           ~SetupOk(sender, b.arg1, b))
  /\ [][asa_id # 0 => (asa_id' = asa_id /\ deposit' <= deposit)]_vars

\* After the reclaim only the asa_id latch stands between the creator and a
\* second setup.
C10_Witness ==
  /\ asa_id # 0
  /\ deposit = 0
  /\ raised = 0
  /\ funded = 0

\* C11: reclaim succeeds at most once over any sequence of calls: after it
\* has succeeded deposit is 0 and every reclaim call is rejected, whoever
\* sends it.
C11_ReclaimOnce ==
  /\ reclaimCount <= 1
  /\ reclaimCount = 1 =>
       /\ deposit = 0
       /\ \A sender \in Accounts : ~ReclaimOk(sender)

\* The deposit has been paid out and a second reclaim would find unlocked
\* balance to pay from: only the latch rejects it.
C11_Witness ==
  /\ reclaimCount = 1
  /\ adminPaid > 0
  /\ after_deadline
  /\ funded = 0
  /\ raised = 0
  /\ balance > MinBalance(asaOptedIn)

\* C12: while setup has not been completed (asa_id = 0, no deposit) every
\* contribute call is rejected, whoever sends it and whatever its bundle, so
\* raised and every contrib are still zero.
C12_DepositGuard ==
  asa_id = 0 =>
    /\ deposit = 0
    /\ raised = 0
    /\ \A p \in Accounts : contrib[p] = 0
    /\ \A sender \in Accounts : \A b \in ContributeBundles(sender) :
         ~ContributeOk(sender, b)

\* An opted-in participant before the deadline whose well-formed bundle only
\* the missing setup keeps out.
C12_Witness ==
  /\ asa_id = 0
  /\ before_deadline
  /\ funded = 0
  /\ \E p \in optedIn :
       NoOversubscription(raised, ContributeBundle(p, 4000000).payAmount, goal)

\* C13: when two participants each hold a bundle that fits the remaining
\* room (goal - raised) but the two together do not, whichever lands first is
\* applied in full, and after it the other one is rejected: nothing of it is
\* applied.
C13_LastSlotRace ==
  [][\A p, q \in optedIn : \A a, b \in ContribAmounts :
       (/\ p # q
        /\ ContributeOk(p, ContributeBundle(p, a))
        /\ ContributeOk(q, ContributeBundle(q, b))
        /\ a + b > goal - raised
        /\ contribute(p, ContributeBundle(p, a)))
       => /\ raised' = raised + a
          /\ contrib'[p] = contrib[p] + a
          /\ balance' = balance + a
          /\ contrib'[q] = contrib[q]
          /\ ~(ContributeOk(q, ContributeBundle(q, b)))']_vars

\* The first bundle has landed and the loser's bundle, which fitted before
\* it, is now rejected, before the deadline and without the goal reached.
C13_Witness ==
  \E p, q \in optedIn : \E b \in ContribAmounts :
    /\ p # q
    /\ contrib[p] > 0
    /\ raised = contrib[p]
    /\ contrib[q] = 0
    /\ funded = 0
    /\ before_deadline
    /\ b > 0
    /\ b <= goal
    /\ raised + b > goal
    /\ ~ContributeOk(q, ContributeBundle(q, b))

\* C14: reclaim is accepted only in states where no participant has a
\* nonzero contrib and every payment contribute ever accepted has been paid
\* back by refund.
C14_RefundBeforeReclaim ==
  \A sender \in Accounts :
    ReclaimOk(sender) =>
      \A p \in Accounts :
        /\ contrib[p] = 0
        /\ refunded[p] = accepted[p]

\* The reclaim came after the refunds of two contributors.
C14_Witness ==
  /\ reclaimCount = 1
  /\ \A p \in Investors :
       /\ accepted[p] > 0
       /\ refundCount[p] = 1
       /\ refunded[p] = accepted[p]

\* C15: with goal = 10_000_000, rate = 100 and deposit = 200_000 after
\* setup, an accepted contribution of 6_000_000 followed by an accepted one
\* of 4_000_000 from a second participant sets funded, and the claim of the
\* 6_000_000 contributor then transfers exactly 600 tokens to them.
C15_SuccessScenario ==
  [][\A p, q \in Accounts :
       (/\ p # q
        /\ goal = 10000000
        /\ rate = 100
        /\ deposit = 200000)
       => /\ (/\ contrib[p] = 6000000
              /\ raised = 6000000
              /\ contribute(q, ContributeBundle(q, 4000000)))
             => /\ funded' = 1
                /\ raised' = goal
          /\ \A assets \in ClaimAssets :
               (/\ contrib[p] = 6000000
                /\ accepted[q] = 4000000
                /\ funded = 1
                /\ claim(p, assets))
               => /\ tokensClaimed'[p] = tokensClaimed[p] + 600
                  /\ asaHolding' = asaHolding - 600
                  /\ contrib'[p] = 0]_vars

\* The scenario has run: 6_000_000 and 4_000_000 were accepted in one
\* payment each and the first contributor holds their 600 tokens.
C15_Witness ==
  \E p, q \in Accounts :
    /\ p # q
    /\ funded = 1
    /\ deposit = 200000
    /\ accepted[p] = 6000000
    /\ accepted[q] = 4000000
    /\ contrib[q] = 4000000
    /\ contributions = 2
    /\ claimCount[p] = 1
    /\ tokensClaimed[p] = 600

C17_ReclaimSplit ==
  [][\A s \in Accounts :
       reclaim(s) =>
         LET half == deposit \div 2
             unlocked == balance - MinBalance(asaOptedIn)
             pay_admin == IF unlocked < half THEN unlocked ELSE half
             rest == unlocked - pay_admin
             pay_creator == IF rest < half THEN rest ELSE half
             toAdmin == adminPaid' - adminPaid
             toCreator == creatorPaid' - creatorPaid
         IN /\ unlocked >= 0
            /\ toAdmin = pay_admin
            /\ toCreator = pay_creator
            /\ balance' = balance - pay_admin - pay_creator
            /\ deposit' = 0
            /\ toAdmin + toCreator <= deposit
            /\ toAdmin >= toCreator
            /\ toCreator >= 0
            /\ unlocked >= 2 * half => (toAdmin = half /\ toCreator = half)]_vars

\* A reclaim that found enough unlocked balance to pay both halves.
C17_Witness ==
  /\ reclaimCount = 1
  /\ deposit = 0
  /\ adminPaid = 100000
  /\ creatorPaid = 100000
  /\ funded = 0

\* C18 (as stated): sweep_asa_failed is rejected in every state where
\* deposit > 0.
C18_SweepFailedAfterReclaim ==
  deposit > 0 => \A sender \in Accounts : ~SweepFailedOk(sender)

\* C18 (amended): sweep_asa_failed is accepted only from the creator, past
\* the deadline of an unfunded campaign that was set up, when raised = 0 and
\* every accepted payment has been refunded; it closes the token holding and
\* leaves deposit and the balance as they are, reclaimed or not.
C18_SweepFailedAfterRefunds ==
  [][\A sender \in Accounts :
       sweep_asa_failed(sender) =>
         /\ sender = Creator
         /\ now > deadline
         /\ funded = 0
         /\ asa_id # 0
         /\ raised = 0
         /\ \A p \in Accounts : contrib[p] = 0 /\ refunded[p] = accepted[p]
         /\ ~asaOptedIn'
         /\ asaHolding' = 0
         /\ deposit' = deposit
         /\ balance' = balance]_vars

\* The holding was swept after a refund while the deposit is still in the
\* escrow account.
C18_Witness ==
  /\ asa_id # 0
  /\ ~asaOptedIn
  /\ funded = 0
  /\ deposit > 0
  /\ reclaimCount = 0
  /\ \E p \in Accounts : refundCount[p] = 1

\* C19: close_vault is accepted only from the creator in a settled state: on
\* a funded campaign only when the escrow's token holding is exactly zero, on
\* an unfunded one only when now > deadline, raised = 0 and deposit = 0; in
\* every other state it is rejected.
C19_CloseOnlySettled ==
  \A sender \in Accounts :
    CloseVaultOk(sender) =>
      /\ sender = Creator
      /\ funded = 1 => (asaOptedIn /\ asaHolding = 0)
      /\ funded = 0 => (now > deadline /\ raised = 0 /\ deposit = 0)

\* A failed campaign, refunded and reclaimed, whose account has been closed.
C19_Witness ==
  /\ funded = 0
  /\ asa_id # 0
  /\ reclaimCount = 1
  /\ balance = 0
  /\ ~asaOptedIn
  /\ \E p \in Accounts : refundCount[p] = 1

\* C20: no call ever removes the record of a participant whose contrib is
\* not zero, so on an unfunded campaign raised is exactly the sum of the
\* recorded contrib.
C20_NoUnsettledRecordRemoved ==
  [][/\ \A p \in optedIn : contrib[p] # 0 => p \in optedIn'
     /\ funded' = 0 =>
          raised' = Sum([p \in Accounts |->
                           IF p \in optedIn' THEN contrib'[p] ELSE 0],
                        Accounts)]_vars

\* C21: setup is all or nothing.  A bundle that fails the token policy
\* (default-frozen, freeze or clawback set) or a check of the seed transfer
\* (type, sender, receiver, asset, amount >= floor(goal*rate/10^6)) is
\* rejected with asa_id and deposit still 0, and the creator's well-formed
\* bundle is still accepted after it; asa_id is only ever set by a bundle
\* that passed all of these checks.
C21_SetupAtomic ==
  LET pool == (goal * rate) \div 1000000
      PolicyFails(a) ==
        \/ a \notin Assets
        \/ AssetParamDefaultFrozen(a) # 0
        \/ AssetParamFreeze(a) # ZeroAddr
        \/ AssetParamClawback(a) # ZeroAddr
      SeedFails(b) ==
        \/ b.seedType # "axfer"
        \/ b.seedSender # Creator
        \/ b.seedReceiver # AppAddr
        \/ b.seedAsset # b.arg1
        \/ b.seedAmount < pool
  IN /\ asa_id = 0 =>
          /\ deposit = 0
          /\ \A b \in SetupBundles(Creator) :
               (PolicyFails(b.arg1) \/ SeedFails(b)) =>
                 ~SetupOk(Creator, b.arg1, b)
          /\ SetupOk(Creator, 1,
                     SetupBundle(Creator, 1, (goal * 2) \div 100, pool))
     /\ asa_id # 0 => (~PolicyFails(asa_id) /\ seedAccepted >= pool)

\* Setup is still open after time has passed and others have acted: among
\* the creator's bundles one with a clawback asset and one with a short seed
\* are rejected and the well-formed one is accepted.
C21_Witness ==
  /\ asa_id = 0
  /\ deposit = 0
  /\ optedIn # {}
  /\ now > 1
  /\ \E b \in SetupBundles(Creator) :
       AssetParamClawback(b.arg1) # ZeroAddr /\ ~SetupOk(Creator, b.arg1, b)
  /\ \E b \in SetupBundles(Creator) :
       /\ b.arg1 = 1
       /\ b.seedAmount < required_pool(goal, rate)
       /\ ~SetupOk(Creator, b.arg1, b)
  /\ \E b \in SetupBundles(Creator) : SetupOk(Creator, b.arg1, b)

\* C22: withdraw has no one-time latch.  A withdraw leaves raised and funded
\* as they were and leaves the creator's next withdraw acceptable, and every
\* withdraw, the fee already paid in full or not, pays the admin
\* min(floor(raised*2/100), unlocked) again.
C22_WithdrawRepeats ==
  [][\A s \in Accounts :
       withdraw(s) =>
         LET pct == (raised * 2) \div 100
             unlocked == balance - MinBalance(asaOptedIn)
         IN /\ raised' = raised
            /\ funded' = 1
            /\ WithdrawOk(Creator)'
            /\ adminPaid' - adminPaid
                 = IF pct <= unlocked THEN pct ELSE unlocked]_vars

\* Repeated withdraws have paid the admin more than 2% of raised.
C22_Witness ==
  /\ funded = 1
  /\ adminPaid > (raised * 2) \div 100
  /\ WithdrawOk(Creator)

\* C23: setup, withdraw, reclaim, sweep_asa_failed, sweep_asa_success and
\* close_vault are rejected in every state when the caller is not the
\* creator, the admin and the contributors included.
C23_CreatorOnly ==
  \A sender \in Accounts \ {Creator} :
    /\ \A b \in SetupBundles(sender) : ~SetupOk(sender, b.arg1, b)
    /\ asa_id = 0 => \A b \in SetupBundles(Creator) :
         ~SetupOk(sender, b.arg1,
                  [b EXCEPT !.paySender = sender, !.seedSender = sender])
    /\ ~WithdrawOk(sender)
    /\ ~ReclaimOk(sender)
    /\ ~SweepFailedOk(sender)
    /\ ~SweepSuccessOk(sender)
    /\ ~CloseVaultOk(sender)

\* A funded campaign past the deadline where the creator's withdraw and
\* sweep_asa_success would be accepted.
C23_Witness ==
  /\ WithdrawOk(Creator)
  /\ SweepSuccessOk(Creator)
  /\ balance > MinBalance(asaOptedIn)
  /\ optedIn # {}

\* C24: a contribute call is rejected whenever funded is set, or the round
\* is past the deadline, or the payment amount is 0, or the payment's sender
\* is not the caller, or its receiver is not the escrow account.
C24_ContributeOnlyWhileOpen ==
  \A sender \in Accounts : \A b \in ContributeBundles(sender) :
    (\/ funded = 1
     \/ now > deadline
     \/ b.payAmount = 0
     \/ b.paySender # sender
     \/ b.payReceiver # AppAddr)
    => ~ContributeOk(sender, b)

\* Past the deadline of an unfunded campaign with room left: only the
\* deadline keeps an opted-in participant's bundle out.
C24_Witness ==
  /\ now > deadline
  /\ funded = 0
  /\ asa_id # 0
  /\ raised > 0
  /\ \E p \in optedIn :
       /\ raised + 4000000 <= goal
       /\ ~ContributeOk(p, ContributeBundle(p, 4000000))

\* C25: refund is accepted only when now > deadline, funded = 0 and the
\* caller's contrib > 0: it is rejected at or before the deadline although
\* the goal has not been reached, and in every state of a funded campaign.
C25_RefundOnlyAfterFailure ==
  \A p \in Accounts :
    /\ RefundOk(p) => (now > deadline /\ funded = 0 /\ contrib[p] > 0)
    /\ (now <= deadline \/ funded = 1 \/ contrib[p] = 0) => ~RefundOk(p)

\* At the deadline round of an unfunded campaign a contributor whose money
\* the escrow could pay back is still refused.
C25_Witness ==
  /\ now = deadline
  /\ funded = 0
  /\ raised < goal
  /\ \E p \in optedIn :
       /\ contrib[p] > 0
       /\ RefundPaymentOk(contrib[p])
       /\ ~RefundOk(p)

\* C26: claim leaves raised alone: on a funded campaign raised equals goal
\* whatever claims have been made, so the fee base floor(raised*2/100) of
\* withdraw is floor(goal*2/100) before, between and after the claims.
C26_RaisedKeptByClaim ==
  funded = 1 =>
    /\ raised = goal
    /\ (raised * 2) \div 100 = (goal * 2) \div 100

\* Both contributors have claimed and a withdraw has paid the fee on the
\* whole goal.
C26_Witness ==
  /\ funded = 1
  /\ \A p \in Investors : claimCount[p] = 1
  /\ \A p \in Accounts : contrib[p] = 0
  /\ raised = goal
  /\ adminPaid = (goal * 2) \div 100

\* C27: deposit is 0 from creation until setup, floor(goal*2/100) from setup
\* until reclaim and 0 after reclaim; it takes no other value, whatever
\* contribute, claim, withdraw, refund, the sweeps and close_vault do.
C27_DepositValues ==
  /\ deposit \in {0, (goal * 2) \div 100}
  /\ asa_id = 0 => deposit = 0
  /\ (asa_id # 0 /\ reclaimCount = 0) => deposit = (goal * 2) \div 100
  /\ reclaimCount > 0 => deposit = 0

\* A funded campaign after claims, a withdraw, the dust sweep and the
\* deadline: the deposit is still recorded in full.
C27_Witness ==
  /\ funded = 1
  /\ deposit = (goal * 2) \div 100
  /\ deposit > 0
  /\ adminPaid > 0
  /\ \E p \in Accounts : claimCount[p] = 1
  /\ asa_id # 0
  /\ ~asaOptedIn
  /\ balance > 0

\* C28: on a funded campaign the claim of a participant whose contrib is
\* positive but earns floor(contrib*rate/10^6) = 0 tokens is accepted; it
\* transfers no token and sets the participant's contrib to 0.
C28_ZeroRewardClaim ==
  /\ [](\A p \in optedIn :
          (funded = 1 /\ contrib[p] > 0
             /\ (contrib[p] * rate) \div 1000000 = 0)
          => ClaimOk(p, <<asa_id>>))
  /\ [][\A p \in optedIn : \A assets \in ClaimAssets :
          (claim(p, assets) /\ (contrib[p] * rate) \div 1000000 = 0)
          => /\ asaHolding' = asaHolding
             /\ asaOptedIn' = asaOptedIn
             /\ tokensClaimed' = tokensClaimed
             /\ contrib'[p] = 0
             /\ claimCount'[p] = claimCount[p] + 1]_vars

\* A participant who paid 9_999 has claimed and received no token.
C28_Witness ==
  \E p \in optedIn :
    /\ funded = 1
    /\ accepted[p] = 9999
    /\ claimCount[p] = 1
    /\ tokensClaimed[p] = 0
    /\ contrib[p] = 0

\* C29: on a funded campaign past the deadline, once sweep_asa_success has
\* closed the escrow's token holding, the creator's close_vault is accepted
\* (and it empties the account to the creator).
C29_CloseAfterDustSweep ==
  (/\ funded = 1
   /\ now > deadline
   /\ asa_id # 0
   /\ ~asaOptedIn
   /\ balance > 0)
  => CloseVaultOk(Creator)

\* C30: while funded = 0, raised equals the sum of contrib over the opted-in
\* participants; once funded = 1 that sum is at most raised.
C30_Conservation ==
  LET recorded == Sum([p \in Accounts |->
                         IF p \in optedIn THEN contrib[p] ELSE 0], Accounts)
  IN /\ funded = 0 => raised = recorded
     /\ funded = 1 => recorded <= raised

\* C31: funded is set exactly when raised equals goal, and once funded is
\* set raised never changes again.
C31_FundedIffGoal ==
  /\ [](funded = 1 <=> raised = goal)
  /\ [][funded = 1 => raised' = raised]_vars

\* A campaign short of its goal by less than the smallest payment made, and
\* not funded.
C31_Witness ==
  /\ funded = 0
  /\ raised > 0
  /\ goal - raised <= 9999
  /\ before_deadline

\* C32 (as stated): once setup has completed, in every state with funded = 0
\* the balance of the escrow account minus its minimum reserve is at least
\* raised.
C32_RefundSolvency ==
  (asa_id # 0 /\ funded = 0) => balance - MinBalance(asaOptedIn) >= raised

\* C32 (amended): the same in every state in which the escrow account has
\* not been closed by close_vault, which needs raised = 0 on an unfunded
\* campaign; so a refund whose guards hold is never stopped by the reserve.
C32_RefundSolvencyWhileOpen ==
  /\ (asa_id # 0 /\ funded = 0) =>
       \/ balance - MinBalance(asaOptedIn) >= raised
       \/ (balance = 0 /\ raised = 0 /\ ~asaOptedIn)
  /\ \A p \in optedIn :
       (now > deadline /\ funded = 0 /\ contrib[p] > 0) => RefundOk(p)

\* Past the deadline, after one refund and a donation, the escrow still
\* holds the other contribution above its reserve.
C32_Witness ==
  /\ funded = 0
  /\ now > deadline
  /\ raised > 0
  /\ donations > 0
  /\ \E p \in Accounts : refundCount[p] = 1
  /\ \E q \in optedIn : contrib[q] = raised /\ RefundOk(q)

\* C33: failure is absorbing.  Once the round is past the deadline with
\* funded = 0, both stay so and every contribute, withdraw and claim is
\* rejected; a campaign in which a refund or the reclaim has succeeded is in
\* that condition.
C33_FailureAbsorbing ==
  /\ [](/\ (now > deadline /\ funded = 0) =>
             /\ \A sender \in Accounts :
                  /\ \A b \in ContributeBundles(sender) :
                       ~ContributeOk(sender, b)
                  /\ ~WithdrawOk(sender)
                  /\ \A assets \in ClaimAssets : ~ClaimOk(sender, assets)
        /\ (reclaimCount > 0 \/ \E p \in Accounts : refundCount[p] > 0)
             => (now > deadline /\ funded = 0))
  /\ [][(now > deadline /\ funded = 0) => (now' > deadline /\ funded' = 0)]_vars

\* A refunded participant past the deadline of a campaign that still has
\* room for their money.
C33_Witness ==
  /\ now > deadline
  /\ funded = 0
  /\ \E p \in optedIn :
       /\ refundCount[p] = 1
       /\ raised + 4000000 <= goal
       /\ ~ContributeOk(p, ContributeBundle(p, 4000000))

\* C34: on a funded campaign the total paid to the admin by withdraw never
\* exceeds floor(raised*2/100), whatever is paid into the escrow account
\* between the calls and however often withdraw is called.
C34_BoundedPlatformFee ==
  funded = 1 => adminPaid <= (raised * 2) \div 100

\* C37: an update of the application is always rejected; a deletion is
\* accepted only when the balance of the escrow account is 0, it has no
\* token holding, raised = 0 and deposit = 0; a funded campaign is never
\* deleted.
C37_UpdateAndDelete ==
  /\ \A sender \in Accounts :
       /\ ~UpdateOk(sender)
       /\ DeleteOk(sender) =>
            /\ balance = 0
            /\ asaHolding = 0
            /\ raised = 0
            /\ deposit = 0
       /\ funded = 1 => ~DeleteOk(sender)
  /\ deleted => funded = 0

\* A funded campaign whose escrow account has been closed: only the
\* assertions on raised, deposit and the holding keep a deletion out.
C37_Witness ==
  /\ funded = 1
  /\ balance = 0
  /\ ~deleted
  /\ \A sender \in Accounts : ~DeleteOk(sender)

\* C35: settlement by different participants commutes.  For distinct p and
\* q whose claims (on a funded campaign) or refunds (on a failed one) are
\* both accepted, either one leaves the other accepted, and the two orders
\* give the same state and the same amounts; the same for a claim and the
\* creator's withdraw.  The first part compares the two orders, the second
\* part ties each step to its effect and shows that it keeps the other
\* operation accepted.
C35_SettlementCommutes ==
  /\ [](/\ \A p \in optedIn : \A q \in optedIn \ {p} :
             /\ (ClaimOk(p, <<asa_id>>) /\ ClaimOk(q, <<asa_id>>)) =>
                  ClaimEffect(ClaimEffect(Settlement, p), q)
                    = ClaimEffect(ClaimEffect(Settlement, q), p)
             /\ (RefundOk(p) /\ RefundOk(q)) =>
                  RefundEffect(RefundEffect(Settlement, p), q)
                    = RefundEffect(RefundEffect(Settlement, q), p)
        /\ \A p \in optedIn :
             (ClaimOk(p, <<asa_id>>) /\ WithdrawOk(Creator)) =>
               WithdrawEffect(ClaimEffect(Settlement, p))
                 = ClaimEffect(WithdrawEffect(Settlement), p))
  /\ [][/\ \A p \in optedIn :
             /\ claim(p, <<asa_id>>) =>
                  /\ Settlement' = ClaimEffect(Settlement, p)
                  /\ \A q \in optedIn \ {p} :
                       ClaimOk(q, <<asa_id>>) => (ClaimOk(q, <<asa_id>>))'
                  /\ WithdrawOk(Creator) => (WithdrawOk(Creator))'
             /\ refund(p) =>
                  /\ Settlement' = RefundEffect(Settlement, p)
                  /\ \A q \in optedIn \ {p} : RefundOk(q) => (RefundOk(q))'
        /\ withdraw(Creator) =>
             /\ Settlement' = WithdrawEffect(Settlement)
             /\ \A p \in optedIn :
                  ClaimOk(p, <<asa_id>>) => (ClaimOk(p, <<asa_id>>))'
       ]_vars

\* Two participants have claimed and the creator has withdrawn.
C35_Witness ==
  /\ funded = 1
  /\ adminPaid > 0
  /\ \E p \in optedIn : \E q \in optedIn \ {p} :
       /\ claimCount[p] = 1 /\ tokensClaimed[p] > 0
       /\ claimCount[q] = 1 /\ tokensClaimed[q] > 0

(* ======================================================================= *)
(*             campaigns whose goal is near the top of the word            *)
(* ======================================================================= *)

\* Goals on both sides of the largest one whose double fits the word.
GoalsW == {2^(WordBits - 1) - 1, 2^(WordBits - 1)}
RatesW == {1}

\* Payments that fill the goal in one or in two contributions.
ContribAmountsW == {1, goal - 1, goal}

InitW ==
  /\ now = 1
  /\ \E g \in GoalsW, r \in RatesW, d \in Deadlines : on_create(g, r, d, now)
  /\ optedIn = {}
  /\ contrib = [a \in Accounts |-> 0]
  /\ balance = 0
  /\ asaOptedIn = FALSE
  /\ asaHolding = 0
  /\ paidIn = [a \in Accounts |-> 0]
  /\ refunded = [a \in Accounts |-> 0]
  /\ tokensClaimed = [a \in Accounts |-> 0]
  /\ claimCount = [a \in Accounts |-> 0]
  /\ refundCount = [a \in Accounts |-> 0]
  /\ adminPaid = 0
  /\ creatorPaid = 0
  /\ seedAccepted = 0
  /\ accepted = [a \in Accounts |-> 0]
  /\ reclaimCount = 0
  /\ deleted = FALSE
  /\ donations = 0
  /\ contributions = 0
  /\ finalized = 0
  /\ requiredPool = 0
  /\ contributed = [a \in Accounts |-> 0]
  /\ claimed = [a \in Accounts |-> 0]
  /\ bootstraps = 0

NextW ==
  \/ ~deleted /\ \E sender \in Accounts : \E b \in SetupBundles(sender) :
                    setup(sender, b)
  \/ ~deleted /\ \E sender \in Accounts : \E amt \in ContribAmountsW :
                    contribute(sender, ContributeBundle(sender, amt))
  \/ ~deleted /\ \E sender \in Accounts, assets \in ClaimAssets :
                    claim(sender, assets)
  \/ ~deleted /\ \E sender \in Accounts : withdraw(sender)
  \/ ~deleted /\ \E sender \in Accounts : refund(sender)
  \/ ~deleted /\ \E sender \in Accounts : reclaim(sender)
  \/ ~deleted /\ \E sender \in Accounts : sweep_asa_failed(sender)
  \/ ~deleted /\ \E sender \in Accounts : sweep_asa_success(sender)
  \/ ~deleted /\ \E sender \in Accounts : close_vault(sender)
  \/ ~deleted /\ \E sender \in Accounts : on_delete(sender)
  \/ ~deleted /\ \E sender \in Accounts : on_closeout(sender)
  \/ ~deleted /\ \E sender \in Accounts : on_optin(sender)
  \/ ~deleted /\ \E sender \in Accounts : clear_state(sender)
  \/ Tick
  \/ \E amt \in DonationAmounts : Donate(amt)

SpecW == InitW /\ [][NextW]_vars

\* C36: no overflow in the fee computation.  A campaign is set up only if
\* goal*2 fits the word, and raised = goal once it is funded, so raised*2
\* fits the word in every funded state and the product in withdraw never
\* aborts the call: the creator's withdraw is accepted whenever the account
\* holds its reserve.
C36_NoFeeOverflow ==
  /\ asa_id # 0 => goal * 2 <= UintMax
  /\ funded = 1 =>
       /\ raised * 2 <= UintMax
       /\ balance >= MinBalance(asaOptedIn) => WithdrawOk(Creator)

\* A funded campaign with the largest goal whose double fits, after a
\* withdraw.
C36_Witness ==
  /\ funded = 1
  /\ raised * 2 + 2 > UintMax
  /\ adminPaid > 0

(* ======================================================================= *)
(*          CrowdfundEscrow, the application of contracts/approval.py      *)
(* ======================================================================= *)

(* The application keeps goal, deadline, asa_id, rate, raised and deposit   *)
(* under the same keys as the first one, and finalized and required_pool;   *)
(* each account that opted in has "contributed" and "claimed".  The clock   *)
(* is Global.latest_timestamp().  The payments it makes leave the model;    *)
(* the balance of its account records them.                                 *)

\* The developer named at creation.
Dev == Creator

MaxBootstraps == 1

Durations == {1}
\* What the developer pays in with the creation: the deposit alone, or the
\* deposit and the reserve of an account that holds one asset.
CreatePayments(g) ==
  {expected_deposit(g), expected_deposit(g) + BASE_MIN_BAL + PER_ASSET_HOLD}
EscrowAmounts == {0, 4000000, 6000000}

is_open == finalized = 0
is_success == finalized = 1
is_failed == finalized = 2

\* WideRatio([contrib, rate], [1_000_000]): the product is formed on 128
\* bits, the quotient is computed here from the quotient and remainder of
\* contrib.
owed_tokens(c) ==
  (c \div 1000000) * rate + ((c % 1000000) * rate) \div 1000000

\* create: the preceding payment of the developer covers the deposit.
create(g, duration, asa, r, pay) ==
  /\ pay >= expected_deposit(g)
  /\ goal = g
  /\ deadline = now + duration
  /\ asa_id = asa
  /\ rate = r
  /\ raised = 0
  /\ finalized = 0
  /\ deposit = expected_deposit(g)
  /\ requiredPool = required_pool(g, r)
  /\ balance = pay

\* What CrowdfundEscrow does not use.
firstApplication == <<funded, contrib, deleted, history>>

InitE ==
  /\ now = 1
  /\ \E g \in Goals, d \in Durations, r \in Rates :
       \E pay \in CreatePayments(g) : create(g, d, 1, r, pay)
  /\ optedIn = {}
  /\ contributed = [a \in Accounts |-> 0]
  /\ claimed = [a \in Accounts |-> 0]
  /\ asaOptedIn = FALSE
  /\ asaHolding = 0
  /\ bootstraps = 0
  /\ donations = 0
  /\ contributions = 0
  /\ funded = 0
  /\ contrib = [a \in Accounts |-> 0]
  /\ deleted = FALSE
  /\ paidIn = [a \in Accounts |-> 0]
  /\ refunded = [a \in Accounts |-> 0]
  /\ tokensClaimed = [a \in Accounts |-> 0]
  /\ claimCount = [a \in Accounts |-> 0]
  /\ refundCount = [a \in Accounts |-> 0]
  /\ adminPaid = 0
  /\ creatorPaid = 0
  /\ seedAccepted = 0
  /\ accepted = [a \in Accounts |-> 0]
  /\ reclaimCount = 0

\* opt_in: both local keys start at 0.
opt_in(sender) ==
  /\ sender \in LocalAccounts
  /\ sender \notin optedIn
  /\ optedIn' = optedIn \cup {sender}
  /\ contributed' = [contributed EXCEPT ![sender] = 0]
  /\ claimed' = [claimed EXCEPT ![sender] = 0]
  /\ UNCHANGED <<campaign, asa_id, raised, deposit, finalized, requiredPool,
                 bootstraps, now, escrow, environment, firstApplication>>

\* clear_state is approved: the ledger removes the local state.
escrow_clear_state(sender) ==
  /\ sender \in optedIn
  /\ optedIn' = optedIn \ {sender}
  /\ contributed' = [contributed EXCEPT ![sender] = 0]
  /\ claimed' = [claimed EXCEPT ![sender] = 0]
  /\ UNCHANGED <<campaign, asa_id, raised, deposit, finalized, requiredPool,
                 bootstraps, now, escrow, environment, firstApplication>>

\* bootstrap: the application opts in to the asset (which raises the
\* reserve of its account) and the next transaction of the group brings at
\* least required_pool tokens.
BootstrapOk(sender, seedAmt) ==
  /\ is_open
  /\ balance >= MinBalance(TRUE)
  /\ seedAmt >= requiredPool

bootstrap(sender, seedAmt) ==
  /\ BootstrapOk(sender, seedAmt)
  /\ bootstraps < MaxBootstraps
  /\ bootstraps' = bootstraps + 1
  /\ asaOptedIn' = TRUE
  /\ asaHolding' = asaHolding + seedAmt
  /\ UNCHANGED <<campaign, asa_id, raised, deposit, finalized, requiredPool,
                 contributed, claimed, locals, now, balance, environment,
                 firstApplication>>

\* contribute: open, not past the deadline, a positive payment of the
\* sender to the application; no comparison of raised with goal.
EscrowContributeOk(sender, amt) ==
  /\ is_open
  /\ now <= deadline
  /\ amt > 0
  /\ sender \in optedIn

escrow_contribute(sender, amt) ==
  /\ EscrowContributeOk(sender, amt)
  /\ contributions < MaxContributions
  /\ contributions' = contributions + 1
  /\ contributed' = [contributed EXCEPT ![sender] = @ + amt]
  /\ raised' = raised + amt
  /\ balance' = balance + amt
  /\ UNCHANGED <<campaign, asa_id, deposit, finalized, requiredPool, claimed,
                 bootstraps, optedIn, now, asaOptedIn, asaHolding, donations,
                 firstApplication>>

\* finalize_success: open, not past the deadline, goal reached; pays the
\* fee, the net amount and the deposit out of the account.
FinalizeSuccessOk(sender) ==
  /\ is_open
  /\ now <= deadline
  /\ raised >= goal
  /\ balance - raised - deposit >= MinBalance(asaOptedIn)

finalize_success(sender) ==
  /\ FinalizeSuccessOk(sender)
  /\ finalized' = 1
  /\ balance' = balance - raised - deposit
  /\ UNCHANGED <<campaign, asa_id, raised, deposit, requiredPool, contributed,
                 claimed, bootstraps, optedIn, now, asaOptedIn, asaHolding,
                 environment, firstApplication>>

\* claim: after success, once per account.
EscrowClaimOk(sender) ==
  /\ is_success
  /\ sender \in optedIn
  /\ claimed[sender] = 0
  /\ ClaimTransferOk(owed_tokens(contributed[sender]))

escrow_claim(sender) ==
  /\ EscrowClaimOk(sender)
  /\ asaHolding' = asaHolding - owed_tokens(contributed[sender])
  /\ claimed' = [claimed EXCEPT ![sender] = 1]
  /\ UNCHANGED <<campaign, asa_id, raised, deposit, finalized, requiredPool,
                 contributed, bootstraps, optedIn, now, balance, asaOptedIn,
                 environment, firstApplication>>

\* refund: open or failed, past the deadline, goal not reached, once per
\* account.
EscrowRefundOk(sender) ==
  /\ is_open \/ is_failed
  /\ now > deadline
  /\ raised < goal
  /\ sender \in optedIn
  /\ claimed[sender] = 0
  /\ RefundPaymentOk(contributed[sender])

escrow_refund(sender) ==
  /\ EscrowRefundOk(sender)
  /\ balance' = balance - contributed[sender]
  /\ claimed' = [claimed EXCEPT ![sender] = 1]
  /\ UNCHANGED <<campaign, asa_id, raised, deposit, finalized, requiredPool,
                 contributed, bootstraps, optedIn, now, asaOptedIn,
                 asaHolding, environment, firstApplication>>

\* close_fail: the developer or the admin marks the failure; the deposit is
\* split between them.
CloseFailOk(sender) ==
  /\ is_open
  /\ now > deadline
  /\ raised < goal
  /\ sender \in {Dev, Admin}
  /\ balance - deposit >= MinBalance(asaOptedIn)

close_fail(sender) ==
  /\ CloseFailOk(sender)
  /\ finalized' = 2
  /\ balance' = balance - deposit
  /\ UNCHANGED <<campaign, asa_id, raised, deposit, requiredPool, contributed,
                 claimed, bootstraps, optedIn, now, asaOptedIn, asaHolding,
                 environment, firstApplication>>

\* reclaim_asa_all: after failure the developer takes the whole holding.
ReclaimAsaAllOk(sender) ==
  /\ is_failed
  /\ sender = Dev
  /\ asaOptedIn

reclaim_asa_all(sender) ==
  /\ ReclaimAsaAllOk(sender)
  /\ asaHolding' = 0
  /\ UNCHANGED <<campaign, asa_id, raised, deposit, finalized, requiredPool,
                 contributed, claimed, bootstraps, optedIn, now, balance,
                 asaOptedIn, environment, firstApplication>>

\* close_out, update_application and delete_application are rejected, and
\* reclaim_asa writes nothing.
NextE ==
  \/ \E sender \in Accounts : opt_in(sender)
  \/ \E sender \in Accounts : escrow_clear_state(sender)
  \/ \E sender \in Accounts :
       \E seedAmt \in {requiredPool - 1, requiredPool} :
         bootstrap(sender, seedAmt)
  \/ \E sender \in Accounts : \E amt \in EscrowAmounts :
       escrow_contribute(sender, amt)
  \/ \E sender \in Accounts : finalize_success(sender)
  \/ \E sender \in Accounts : escrow_claim(sender)
  \/ \E sender \in Accounts : escrow_refund(sender)
  \/ \E sender \in Accounts : close_fail(sender)
  \/ \E sender \in Accounts : reclaim_asa_all(sender)
  \/ Tick
  \/ \E amt \in DonationAmounts : Donate(amt)

SpecE == InitE /\ [][NextE]_vars

\* C38: contributed funds are never locked for good.  A participant with
\* contributed > 0 and claimed = 0 can still be paid by claim only if the
\* campaign is or can still be finalized as a success (finalize_success is
\* rejected past the deadline), and by refund only if raised < goal (raised
\* never decreases): in every reachable state one of the three holds.
C38_NeverLocked ==
  \A p \in optedIn :
    (contributed[p] > 0 /\ claimed[p] = 0) =>
      \/ is_success
      \/ is_open /\ now <= deadline
      \/ (is_open \/ is_failed) /\ raised < goal

\* C39: with finalized = 1 the rewards of all contributors together are at
\* most required_pool = floor(goal*rate/10^6).
C39_PoolSuffices ==
  is_success =>
    Sum([p \in Accounts |-> owed_tokens(contributed[p])], Accounts)
      <= requiredPool

====
